---- MODULE Spec2Model ----
(***************************************************************************)
(* Model of chess-api-backend.py: the in-memory game store `games`, the    *)
(* HTTP handlers that read and mutate it, and the three engine adapters.   *)
(*                                                                         *)
(* The rules library (python-chess) is replaced by a miniature game with   *)
(* the same interface: one token on a track of squares 0..TrackLen that    *)
(* advances one, two or three squares per move; an advance of two or more  *)
(* squares is a capture; the side to move alternates; the position with    *)
(* the token on the last square has no legal move (game over).  A UCI      *)
(* move text is the pair <<from, to>>, a FEN text is the pair              *)
(* <<square, side>>.  The engine subprocess and the remote evaluation      *)
(* service are environment inputs chosen nondeterministically.             *)
(***************************************************************************)
EXTENDS Integers, Sequences, FiniteSets, TLC

\* ------------------------------------------------------------------ bounds
TrackLen == 3
MaxMoves == 2

\* ------------------------------------------------------- rules library
Squares == 0..TrackLen

\* chess.Board(): the standard starting position, White to move
StartPos == [sq |-> 0, turn |-> "w"]

\* every position a chess.Board can hold
Boards == [sq : Squares, turn : {"w", "b"}]

\* chess.Board(fen) accepts the text
ValidFen(fen) ==
    /\ Len(fen) = 2
    /\ fen[1] \in Squares
    /\ fen[2] \in {"w", "b"}

\* chess.Board(fen): the position a valid FEN text denotes
Board(fen) == [sq |-> fen[1], turn |-> fen[2]]

\* board.fen()
Fen(board) == <<board.sq, board.turn>>

StartFen == <<0, "w">>

\* chess.Move.from_uci(text) succeeds
WellFormed(uci) ==
    /\ Len(uci) = 2
    /\ uci[1] \in Squares
    /\ uci[2] \in Squares

\* chess.Move.from_uci(text)
from_uci(uci) == [from_square |-> uci[1], to_square |-> uci[2]]

\* move.uci()
uci(move) == <<move.from_square, move.to_square>>

\* board.legal_moves, in the library's enumeration order
board_legal_moves(board) ==
    LET n == IF TrackLen - board.sq < 3 THEN TrackLen - board.sq ELSE 3
    IN  [i \in 1..n |-> [from_square |-> board.sq, to_square |-> board.sq + i]]

Range(s) == {s[i] : i \in 1..Len(s)}

\* a variant without the membership test: every move is pushed
IsLegalUnchecked(board, move) == TRUE

\* move in board.legal_moves
IsLegal(board, move) == move \in Range(board_legal_moves(board))

\* board.is_capture(move)
is_capture(board, move) ==
    move.from_square = board.sq /\ move.to_square - move.from_square >= 2

\* board.piece_at(move.from_square) is not None
piece_at(board, square) == square = board.sq

\* board.push(move): the library applies the move without checking that it
\* is legal; a move from a square that holds no piece only passes the turn
push(board, move) ==
    [sq   |-> IF move.from_square = board.sq THEN move.to_square ELSE board.sq,
     turn |-> IF board.turn = "w" THEN "b" ELSE "w"]

\* a variant that takes every position for a finished game
is_game_over_always(board) == TRUE

\* a variant that takes no position for a finished game
is_game_over_never(board) == FALSE

\* board.is_game_over()
is_game_over(board) == Len(board_legal_moves(board)) = 0

\* the position reached by pushing the UCI texts of `moves`, in order, on `start`
RECURSIVE Replay(_, _)
Replay(start, moves) ==
    IF Len(moves) = 0 THEN start
    ELSE Replay(push(start, from_uci(Head(moves))), Tail(moves))

\* ------------------------------------------------- engine result values
\* a chess.engine score relative to the side to move: centipawns or mate
Cp(v)   == [is_mate |-> FALSE, mate |-> 0, cp |-> v]
Mate(k) == [is_mate |-> TRUE, mate |-> k, cp |-> 0]

\* an Optional[int]: <<>> is None, <<k>> is the integer k
None == <<>>
Some(k) == <<k>>

\* the MoveEvaluation dataclass (piece symbol omitted)
MoveEvaluation(board, move, evaluation, is_mate, mate_in) ==
    [move         |-> uci(move),
     evaluation   |-> evaluation,
     is_mate      |-> is_mate,
     mate_in      |-> mate_in,
     is_capture   |-> is_capture(board, move),
     from_square  |-> move.from_square,
     to_square    |-> move.to_square]

\* the EngineAnalysis dataclass; an adapter that returns None returns NoAnalysis
EngineAnalysis(best_move, top_moves, all_legal_moves, capture_moves, position_evaluation, fen) ==
    [ok                  |-> TRUE,
     best_move           |-> best_move,
     top_moves           |-> top_moves,
     all_legal_moves     |-> all_legal_moves,
     capture_moves       |-> capture_moves,
     position_evaluation |-> position_evaluation,
     fen                 |-> fen]

NoAnalysis ==
    [ok                  |-> FALSE,
     best_move           |-> None,
     top_moves           |-> <<>>,
     all_legal_moves     |-> <<>>,
     capture_moves       |-> <<>>,
     position_evaluation |-> 0,
     fen                 |-> None]

\* a variant that leaves the list in enumeration order
Unsorted(s) == s

\* list.sort(key=lambda x: x.evaluation, reverse=True): stable, descending
RECURSIVE SortByEvaluation(_)
SortByEvaluation(s) ==
    IF Len(s) = 0 THEN <<>>
    ELSE LET front == SortByEvaluation(SubSeq(s, 1, Len(s) - 1))
             x     == s[Len(s)]
             k     == Cardinality({i \in 1..Len(front) :
                                     front[i].evaluation >= x.evaluation})
         IN  SubSeq(front, 1, k) \o <<x>> \o SubSeq(front, k + 1, Len(front))

\* a variant that lists the captures last to first
CaptureMovesReversed(all_moves) ==
    LET c == SelectSeq(all_moves, LAMBDA m : m.is_capture)
    IN  [i \in 1..Len(c) |-> c[Len(c) + 1 - i]]

\* [m for m in all_moves if m.is_capture]
CaptureMoves(all_moves) == SelectSeq(all_moves, LAMBDA m : m.is_capture)

\* the engine's raw value of a score, relative to the side to move:
\* centipawns, or the mate sentinel
Raw(score) ==
    IF score.is_mate THEN (IF score.mate > 0 THEN 10000 ELSE -10000) ELSE score.cp

\* a variant that records no mate distance
TopEvaluationNoMateIn(board, pv_info) ==
    LET score == pv_info.score
    IN  IF score.is_mate
        THEN MoveEvaluation(board, pv_info.pv[1],
                            IF score.mate > 0 THEN 10000 ELSE -10000,
                            TRUE, None)
        ELSE MoveEvaluation(board, pv_info.pv[1], score.cp, FALSE, None)

\* the evaluation the adapters record for a principal variation
TopEvaluation(board, pv_info) ==
    LET score == pv_info.score
    IN  IF score.is_mate
        THEN MoveEvaluation(board, pv_info.pv[1],
                            IF score.mate > 0 THEN 10000 ELSE -10000,
                            TRUE, Some(score.mate))
        ELSE MoveEvaluation(board, pv_info.pv[1], score.cp, FALSE, None)

\* a variant that records every score under the first legal move
LoopEvaluationFirstMove(board, move, score) ==
    MoveEvaluation(board, board_legal_moves(board)[1], -Raw(score), FALSE, None)

\* the evaluation the Local adapter records for one legal move, from the
\* score of the position after the move
LoopEvaluation(board, move, score) ==
    IF score.is_mate
    THEN MoveEvaluation(board, move,
                        IF score.mate > 0 THEN 10000 ELSE -10000,
                        TRUE, Some(score.mate))
    ELSE MoveEvaluation(board, move, -score.cp, FALSE, None)

\* a variant that keeps the score relative to the side to move
PositionEvaluationRelative(board, score) ==
    IF score.is_mate THEN (IF score.mate > 0 THEN 10000 ELSE -10000) ELSE score.cp

\* position_evaluation of the Local and Fallback adapters
PositionEvaluation(board, score) ==
    LET position_eval == IF score.is_mate
                         THEN (IF score.mate > 0 THEN 10000 ELSE -10000)
                         ELSE score.cp
    IN  IF board.turn = "b" THEN -position_eval ELSE position_eval

\* ------------------------------------------------ the engine subprocess
\* One run of the UCI engine as the adapters see it.  run.fail names the
\* call that raises ("none": no call raises): "popen" (popen_uci),
\* "configure", "analyse" (the multi-variation search), "loop" (the search
\* after the run.at-th legal move was pushed), "main" (the final search).
\* run.rank is the engine's ranking of the legal moves (indices into
\* board.legal_moves), run.info_scores, run.loop_scores and run.main_score
\* are the scores it reports.
Min(a, b) == IF a < b THEN a ELSE b

\* engine.analyse(board, limit, multipv=n): one info per variation, best
\* first; a position without legal moves yields one info without 'pv'
MultiPv(board, n, run) ==
    LET legal == board_legal_moves(board)
        rank  == SelectSeq(run.rank, LAMBDA i : i <= Len(legal))
    IN  IF Len(legal) = 0
        THEN << [pv |-> <<>>, score |-> run.main_score] >>
        ELSE [j \in 1..Min(n, Len(legal)) |->
                [pv |-> <<legal[rank[j]]>>, score |-> run.info_scores[j]]]

\* engine.configure({"Skill Level": v}) is accepted by the engine
SkillLevelAccepted(v) == v \in 0..20

\* ------------------------------------------------------ session store
\* games: the dict from game identifier to session; DOMAIN g is its key set
\* `fen` is falsy (None or "") when it is the empty text
Falsy(fen) == Len(fen) = 0

\* a variant that puts the new entry first
append_first(moves, entry) == <<entry>> \o moves

\* game_data['moves'].append(entry)
append(moves, entry) == Append(moves, entry)

\* a session as get_or_create_game creates it
NewSession(fen, player_color, engine_strength) ==
    [board           |-> IF Falsy(fen) THEN StartPos ELSE Board(fen),
     player_color    |-> player_color,
     moves           |-> <<>>,
     engine_strength |-> engine_strength,
     current_engine  |-> "stockfish"]

\* a variant that replaces the whole session, not only its board, when a fen
\* is given for an existing identifier
get_or_create_game_replacing(g, game_id, fen, player_color, engine_strength) ==
    IF ~Falsy(fen) /\ ~ValidFen(fen)
    THEN [games |-> g, raised |-> TRUE]
    ELSE IF game_id \in DOMAIN g /\ Falsy(fen)
    THEN [games |-> g, raised |-> FALSE]
    ELSE [games |-> [i \in DOMAIN g \cup {game_id} |->
                       IF i = game_id
                       THEN NewSession(fen, player_color, engine_strength)
                       ELSE g[i]],
          raised |-> FALSE]

\* a variant that stores the colour and strength arguments on every call
get_or_create_game_adopting(g, game_id, fen, player_color, engine_strength) ==
    IF ~Falsy(fen) /\ ~ValidFen(fen)
    THEN [games |-> g, raised |-> TRUE]
    ELSE IF game_id \notin DOMAIN g
    THEN [games |-> [i \in DOMAIN g \cup {game_id} |->
                       IF i = game_id
                       THEN NewSession(fen, player_color, engine_strength)
                       ELSE g[i]],
          raised |-> FALSE]
    ELSE [games |-> [g EXCEPT ![game_id].board =
                                 IF Falsy(fen) THEN @ ELSE Board(fen),
                              ![game_id].player_color = player_color,
                              ![game_id].engine_strength = engine_strength],
          raised |-> FALSE]

\* a variant that inserts the session before it parses the fen
get_or_create_game_eager(g, game_id, fen, player_color, engine_strength) ==
    IF ~Falsy(fen) /\ ~ValidFen(fen)
    THEN [games |-> [i \in DOMAIN g \cup {game_id} |->
                       IF i = game_id
                       THEN NewSession(None, player_color, engine_strength)
                       ELSE g[i]],
          raised |-> TRUE]
    ELSE IF game_id \notin DOMAIN g
    THEN [games |-> [i \in DOMAIN g \cup {game_id} |->
                       IF i = game_id
                       THEN NewSession(fen, player_color, engine_strength)
                       ELSE g[i]],
          raised |-> FALSE]
    ELSE IF ~Falsy(fen)
    THEN [games |-> [g EXCEPT ![game_id].board = Board(fen)], raised |-> FALSE]
    ELSE [games |-> g, raised |-> FALSE]

\* get_or_create_game: the store after the call, and whether chess.Board(fen)
\* raised (then the store is as before the call)
get_or_create_game(g, game_id, fen, player_color, engine_strength) ==
    IF game_id \notin DOMAIN g
    THEN IF ~Falsy(fen) /\ ~ValidFen(fen)
         THEN [games |-> g, raised |-> TRUE]
         ELSE [games |->
                 [i \in DOMAIN g \cup {game_id} |->
                    IF i = game_id
                    THEN NewSession(fen, player_color, engine_strength)
                    ELSE g[i]],
               raised |-> FALSE]
    ELSE IF ~Falsy(fen)
         THEN IF ~ValidFen(fen)
              THEN [games |-> g, raised |-> TRUE]
              ELSE [games |-> [g EXCEPT ![game_id].board = Board(fen)],
                    raised |-> FALSE]
         ELSE [games |-> g, raised |-> FALSE]

\* ------------------------------------------------------------ adapters
\* every adapter yields the analysis it returns (NoAnalysis for None) and
\* the store as the call leaves it

\* Local adapter
analyze_position_stockfish(g, game_id, top_n, run) ==
    IF game_id \notin DOMAIN g
    THEN [analysis |-> NoAnalysis, games |-> g]
    ELSE
    LET board == g[game_id].board
        engine_strength == g[game_id].engine_strength
        legal == board_legal_moves(board)
        info  == MultiPv(board, top_n, run)
        top_moves == [j \in 1..Len(info) |-> TopEvaluation(board, info[j])]
        all_moves == [i \in 1..Len(legal) |->
                        LoopEvaluation(board, legal[i], run.loop_scores[i])]
    IN  IF \/ run.fail \in {"popen", "configure", "analyse"}
           \/ ~SkillLevelAccepted(engine_strength)
           \/ top_n < 1
           \/ \E j \in 1..Len(info) : Len(info[j].pv) = 0
        THEN [analysis |-> NoAnalysis, games |-> g]
        ELSE IF run.fail = "loop" /\ run.at <= Len(legal)
        THEN \* board.push(move) was done, engine.analyse raised, board.pop()
             \* was not reached
             [analysis |-> NoAnalysis,
              games |-> [g EXCEPT ![game_id].board = push(board, legal[run.at])]]
        ELSE IF run.fail = "main" \/ Len(top_moves) = 0
        THEN [analysis |-> NoAnalysis, games |-> g]
        ELSE [analysis |->
                EngineAnalysis(top_moves[1].move, top_moves,
                               SortByEvaluation(all_moves),
                               SortByEvaluation(CaptureMoves(all_moves)),
                               PositionEvaluation(board, run.main_score),
                               Fen(board)),
              games |-> g]

\* the evaluation the Cloud adapter records for one returned variation
LichessEvaluation(board, pv) ==
    LET move == from_uci(pv.moves)
    IN  IF pv.mate # None
        THEN MoveEvaluation(board, move,
                            IF pv.mate[1] > 0 THEN 10000 ELSE -10000,
                            TRUE, pv.mate)
        ELSE IF pv.cp # None
        THEN MoveEvaluation(board, move, pv.cp[1], FALSE, None)
        ELSE MoveEvaluation(board, move, 0, FALSE, None)

\* the neutral entry the Cloud and Fallback adapters record for a legal move
NeutralEvaluation(board, move) == MoveEvaluation(board, move, 0, FALSE, None)

\* a variant that does not look at the status code
ServiceAnsweredAnyStatus(reply) ==
    /\ reply.fail = "none"
    /\ reply.has_pvs
    /\ Len(reply.pvs) > 0

\* requests.get returned, with status 200 and a non-empty 'pvs'
ServiceAnswered(reply) ==
    /\ reply.fail = "none"
    /\ reply.status = 200
    /\ reply.has_pvs
    /\ Len(reply.pvs) > 0

\* Cloud adapter; reply is the remote service's answer: reply.fail ("none",
\* or "timeout" when requests.get raises), reply.status, reply.has_pvs,
\* reply.pvs (each with the first move's text and optional cp and mate)
analyze_position_lichess(g, game_id, top_n, reply) ==
    IF game_id \notin DOMAIN g
    THEN [analysis |-> NoAnalysis, games |-> g]
    ELSE
    LET board == g[game_id].board
        legal == board_legal_moves(board)
        pvs   == reply.pvs
        all_moves == [i \in 1..Len(legal) |-> NeutralEvaluation(board, legal[i])]
    IN  IF \/ ~ServiceAnswered(reply)
           \/ \E j \in 1..Len(pvs) :
                \/ ~WellFormed(pvs[j].moves)
                \/ ~piece_at(board, from_uci(pvs[j].moves).from_square)
        THEN [analysis |-> NoAnalysis, games |-> g]
        ELSE LET top_moves == [j \in 1..Len(pvs) |-> LichessEvaluation(board, pvs[j])]
             IN  [analysis |->
                    EngineAnalysis(top_moves[1].move, top_moves, all_moves,
                                   CaptureMoves(all_moves),
                                   top_moves[1].evaluation, Fen(board)),
                  games |-> g]

\* Fallback adapter
analyze_position_chesscom(g, game_id, run) ==
    IF game_id \notin DOMAIN g
    THEN [analysis |-> NoAnalysis, games |-> g]
    ELSE
    LET board == g[game_id].board
        legal == board_legal_moves(board)
        info  == MultiPv(board, 3, run)
        top_moves == [j \in 1..Len(info) |-> TopEvaluation(board, info[j])]
        all_moves == [i \in 1..Len(legal) |-> NeutralEvaluation(board, legal[i])]
    IN  IF \/ run.fail \in {"popen", "analyse", "main"}
           \/ \E j \in 1..Len(info) : Len(info[j].pv) = 0
        THEN [analysis |-> NoAnalysis, games |-> g]
        ELSE [analysis |->
                EngineAnalysis(IF Len(top_moves) > 0 THEN top_moves[1].move ELSE None,
                               top_moves, all_moves, CaptureMoves(all_moves),
                               PositionEvaluation(board, run.main_score),
                               Fen(board)),
              games |-> g]

\* get_engine_move: env.run is the engine subprocess's behaviour, env.reply
\* the remote service's answer
get_engine_move(g, game_id, engine_type, env) ==
    IF engine_type = "stockfish"
    THEN analyze_position_stockfish(g, game_id, 5, env.run)
    ELSE IF engine_type = "lichess"
    THEN analyze_position_lichess(g, game_id, 5, env.reply)
    ELSE IF engine_type = "chesscom"
    THEN analyze_position_chesscom(g, game_id, env.run)
    ELSE analyze_position_stockfish(g, game_id, 5, env.run)

\* ------------------------------------------------------------ handlers
\* Every handler yields the store after the request, the JSON response, and
\* whether it called an engine adapter (`called`).
\* A response field that the handler does not set keeps its value in NoResp.
\* The response carries the fields the properties below read; fields that
\* only echo the request (game_id, player_color, engine, player_move) and
\* the serialised analysis are left out, best_move standing for the latter.
NoResp ==
    [endpoint        |-> "",
     status          |-> 0,
     error           |-> "",
     success         |-> FALSE,
     fen             |-> None,
     engine_strength |-> None,
     ai_move         |-> None,
     moves_history   |-> <<>>,
     game_over       |-> FALSE,
     legal_moves     |-> <<>>,
     best_move       |-> None,
     stockfish       |-> None,
     lichess         |-> None]

\* an exception that no handler catches: the framework answers 500
Uncaught(endpoint) ==
    [NoResp EXCEPT !.endpoint = endpoint, !.status = 500,
                   !.error = "Internal Server Error"]

\* POST /new_game
new_game(g, game_id, player_color, engine_strength, engine_type, fen, env) ==
    LET goc == get_or_create_game(g, game_id, fen, player_color, engine_strength)
        g1  == [goc.games EXCEPT ![game_id].current_engine = engine_type]
        response == [NoResp EXCEPT !.endpoint = "new_game",
                                   !.status = 200,
                                   !.fen = Fen(g1[game_id].board),
                                   !.engine_strength = Some(engine_strength)]
        r   == get_engine_move(g1, game_id, engine_type, env)
        g2  == r.games
        board == push(g2[game_id].board, from_uci(r.analysis.best_move))
    IN  IF goc.raised
        THEN [games |-> g, resp |-> Uncaught("new_game"), called |-> FALSE]
        ELSE IF player_color # "black"
        THEN [games |-> g1, resp |-> response, called |-> FALSE]
        ELSE IF ~r.analysis.ok
        THEN [games |-> g2, resp |-> response, called |-> TRUE]
        ELSE IF ~WellFormed(r.analysis.best_move)
        THEN [games |-> g2, resp |-> Uncaught("new_game"), called |-> TRUE]
        ELSE [games |-> [g2 EXCEPT ![game_id].board = board,
                                   ![game_id].moves = append(@, r.analysis.best_move)],
              resp |-> [response EXCEPT !.ai_move = r.analysis.best_move,
                                        !.fen = Fen(board),
                                        !.best_move = r.analysis.best_move],
              called |-> TRUE]

\* POST /make_move
make_move(g, game_id, move_uci, fen, engine_type, engine_strength, env) ==
    LET goc == get_or_create_game(g, game_id, fen, "white", engine_strength)
        g1  == [goc.games EXCEPT ![game_id].current_engine = engine_type]
        board1 == g1[game_id].board
        move   == from_uci(move_uci)
        \* the player's move
        board2 == push(board1, move)
        g2  == [g1 EXCEPT ![game_id].board = board2,
                          ![game_id].moves = append(@, move_uci)]
        response == [NoResp EXCEPT !.endpoint = "make_move",
                                   !.status = 200,
                                   !.success = TRUE,
                                   !.fen = Fen(board2),
                                   !.game_over = is_game_over(board2),
                                   !.moves_history = g2[game_id].moves]
        \* the engine's reply
        r   == get_engine_move(g2, game_id, engine_type, env)
        g3  == r.games
        board3 == push(g3[game_id].board, from_uci(r.analysis.best_move))
        g4  == [g3 EXCEPT ![game_id].board = board3,
                          ![game_id].moves = append(@, r.analysis.best_move)]
    IN  IF goc.raised
        THEN [games |-> g, resp |-> Uncaught("make_move"), called |-> FALSE]
        ELSE IF ~WellFormed(move_uci)
        THEN [games |-> g1,
              resp |-> [NoResp EXCEPT !.endpoint = "make_move", !.status = 400,
                                      !.error = "invalid uci",
                                      !.fen = Fen(board1)],
              called |-> FALSE]
        ELSE IF ~IsLegal(board1, move)
        THEN [games |-> g1,
              resp |-> [NoResp EXCEPT !.endpoint = "make_move", !.status = 400,
                                      !.error = "Illegal move",
                                      !.fen = Fen(board1)],
              called |-> FALSE]
        ELSE IF is_game_over(board2)
        THEN [games |-> g2, resp |-> response, called |-> FALSE]
        ELSE IF ~r.analysis.ok
        THEN [games |-> g3,
              resp |-> [response EXCEPT !.error = "Engine failed to provide move"],
              called |-> TRUE]
        ELSE IF ~WellFormed(r.analysis.best_move)
        THEN [games |-> g3,
              resp |-> [NoResp EXCEPT !.endpoint = "make_move", !.status = 400,
                                      !.error = "invalid uci",
                                      !.fen = Fen(g3[game_id].board)],
              called |-> TRUE]
        ELSE [games |-> g4,
              resp |-> [response EXCEPT !.ai_move = r.analysis.best_move,
                                        !.fen = Fen(board3),
                                        !.game_over = is_game_over(board3),
                                        !.moves_history = g4[game_id].moves,
                                        !.best_move = r.analysis.best_move],
              called |-> TRUE]

\* POST /sync_position
sync_position(g, game_id, fen, player_color, engine_strength) ==
    LET goc == get_or_create_game(g, game_id, fen, player_color, engine_strength)
        board == goc.games[game_id].board
        legal == board_legal_moves(board)
    IN  IF Falsy(fen)
        THEN [games |-> g,
              resp |-> [NoResp EXCEPT !.endpoint = "sync_position", !.status = 400,
                                      !.error = "FEN required"],
              called |-> FALSE]
        ELSE IF goc.raised
        THEN [games |-> g, resp |-> Uncaught("sync_position"), called |-> FALSE]
        ELSE [games |-> goc.games,
              resp |-> [NoResp EXCEPT !.endpoint = "sync_position", !.status = 200,
                                      !.success = TRUE,
                                         !.fen = Fen(board),
                                      !.legal_moves = [i \in 1..Len(legal) |-> uci(legal[i])],
                                      !.game_over = is_game_over(board)],
              called |-> FALSE]

\* a variant that calls get_or_create_game whether or not a fen is given
SyncAlways(g, game_id, fen) ==
    get_or_create_game(g, game_id, fen, "white", 20)

\* "if fen: get_or_create_game(game_id, fen)", the first step of the
\* endpoints below
SyncIfFen(g, game_id, fen) ==
    IF Falsy(fen) THEN [games |-> g, raised |-> FALSE]
    ELSE get_or_create_game(g, game_id, fen, "white", 20)

\* a variant that takes every adapter result for an analysis
AvailableAlways(analysis) == TRUE

\* "if analysis:", false for the None an adapter returns on a fault
Available(analysis) == analysis.ok

\* POST /analyze_position
analyze_position(g, game_id, engine_type, top_n, fen, env) ==
    LET goc == SyncIfFen(g, game_id, fen)
        g1  == goc.games
        r   == IF engine_type = "stockfish"
               THEN analyze_position_stockfish(g1, game_id, top_n, env.run)
               ELSE IF engine_type = "lichess"
               THEN analyze_position_lichess(g1, game_id, top_n, env.reply)
               ELSE analyze_position_chesscom(g1, game_id, env.run)
    IN  IF goc.raised
        THEN [games |-> g, resp |-> Uncaught("analyze_position"), called |-> FALSE]
        ELSE IF game_id \notin DOMAIN g1
        THEN [games |-> g1,
              resp |-> [NoResp EXCEPT !.endpoint = "analyze_position", !.status = 404,
                                      !.error = "Game not found and no FEN provided"],
              called |-> FALSE]
        ELSE IF engine_type \notin {"stockfish", "lichess", "chesscom"}
        THEN [games |-> g1,
              resp |-> [NoResp EXCEPT !.endpoint = "analyze_position", !.status = 400,
                                      !.error = "Invalid engine"],
              called |-> FALSE]
        ELSE IF Available(r.analysis)
        THEN [games |-> r.games,
              resp |-> [NoResp EXCEPT !.endpoint = "analyze_position", !.status = 200,
                                      !.fen = r.analysis.fen,
                                      !.best_move = r.analysis.best_move],
              called |-> TRUE]
        ELSE [games |-> r.games,
              resp |-> [NoResp EXCEPT !.endpoint = "analyze_position", !.status = 500,
                                      !.error = "Analysis error"],
              called |-> TRUE]

\* a variant of the range test without the upper bound
StrengthOnlyLowerBound(strength) == 1 <= strength

\* "1 <= strength <= 20"
StrengthInRange(strength) == 1 <= strength /\ strength <= 20

\* POST /set_engine_strength
set_engine_strength(g, game_id, strength, fen) ==
    LET goc == SyncIfFen(g, game_id, fen)
        g1  == goc.games
    IN  IF goc.raised
        THEN [games |-> g, resp |-> Uncaught("set_engine_strength"), called |-> FALSE]
        ELSE IF game_id \notin DOMAIN g1
        THEN [games |-> g1,
              resp |-> [NoResp EXCEPT !.endpoint = "set_engine_strength", !.status = 404,
                                      !.error = "Game not found"],
              called |-> FALSE]
        ELSE IF ~StrengthInRange(strength)
        THEN [games |-> g1,
              resp |-> [NoResp EXCEPT !.endpoint = "set_engine_strength", !.status = 400,
                                      !.error = "Strength must be between 1 and 20"],
              called |-> FALSE]
        ELSE [games |-> [g1 EXCEPT ![game_id].engine_strength = strength],
              resp |-> [NoResp EXCEPT !.endpoint = "set_engine_strength", !.status = 200,
                                      !.success = TRUE,
                                      !.engine_strength = Some(strength)],
              called |-> FALSE]

\* GET /get_capture_moves
get_capture_moves(g, game_id, engine, fen, env) ==
    LET goc == SyncIfFen(g, game_id, fen)
        g1  == goc.games
        r   == IF engine = "stockfish"
               THEN analyze_position_stockfish(g1, game_id, 5, env.run)
               ELSE IF engine = "lichess"
               THEN analyze_position_lichess(g1, game_id, 5, env.reply)
               ELSE analyze_position_chesscom(g1, game_id, env.run)
    IN  IF goc.raised
        THEN [games |-> g, resp |-> Uncaught("get_capture_moves"), called |-> FALSE]
        ELSE IF game_id \notin DOMAIN g1
        THEN [games |-> g1,
              resp |-> [NoResp EXCEPT !.endpoint = "get_capture_moves", !.status = 404,
                                      !.error = "Game not found"],
              called |-> FALSE]
        ELSE IF Available(r.analysis)
        THEN [games |-> r.games,
              resp |-> [NoResp EXCEPT !.endpoint = "get_capture_moves", !.status = 200],
              called |-> TRUE]
        ELSE [games |-> r.games,
              resp |-> [NoResp EXCEPT !.endpoint = "get_capture_moves", !.status = 500,
                                      !.error = "Analysis error"],
              called |-> TRUE]

\* GET /legal_moves; square is None, or Some(s) for the text of square s
\* (chess.parse_square raises on a text that names no square)
legal_moves(g, game_id, square, fen) ==
    LET goc == SyncIfFen(g, game_id, fen)
        g1  == goc.games
        board == g1[game_id].board
        legal == SelectSeq(board_legal_moves(board),
                           LAMBDA m : m.from_square = square[1])
    IN  IF goc.raised
        THEN [games |-> g, resp |-> Uncaught("legal_moves"), called |-> FALSE]
        ELSE IF game_id \notin DOMAIN g1
        THEN [games |-> g1,
              resp |-> [NoResp EXCEPT !.endpoint = "legal_moves", !.status = 404,
                                      !.error = "Game not found"],
              called |-> FALSE]
        ELSE IF square = None
        THEN [games |-> g1,
              resp |-> [NoResp EXCEPT !.endpoint = "legal_moves", !.status = 200],
              called |-> FALSE]
        ELSE IF square[1] \notin Squares
        THEN [games |-> g1, resp |-> Uncaught("legal_moves"), called |-> FALSE]
        ELSE [games |-> g1,
              resp |-> [NoResp EXCEPT !.endpoint = "legal_moves", !.status = 200,
                                      !.legal_moves =
                                          [i \in 1..Len(legal) |-> uci(legal[i])]],
              called |-> FALSE]

\* POST /compare_engines
compare_engines(g, game_id, fen, env) ==
    LET goc == SyncIfFen(g, game_id, fen)
        g1  == goc.games
        sf  == analyze_position_stockfish(g1, game_id, 3, env.run)
        li  == analyze_position_lichess(sf.games, game_id, 3, env.reply)
    IN  IF goc.raised
        THEN [games |-> g, resp |-> Uncaught("compare_engines"), called |-> FALSE]
        ELSE IF game_id \notin DOMAIN g1
        THEN [games |-> g1,
              resp |-> [NoResp EXCEPT !.endpoint = "compare_engines", !.status = 404,
                                      !.error = "Game not found"],
              called |-> FALSE]
        ELSE [games |-> li.games,
              resp |-> [NoResp EXCEPT !.endpoint = "compare_engines", !.status = 200,
                                      !.stockfish = sf.analysis.best_move,
                                      !.lichess = li.analysis.best_move],
              called |-> TRUE]

\* ------------------------------------------------------ request inputs
GameIds     == {"default"}
Colors      == {"white", "black"}
Strengths   == {20, 25}
StrengthInputs == {0, 5, 25}
EngineNames == {"stockfish", "lichess", "chesscom", "gnuchess"}
BadFen      == <<9>>
FenInputs   == {None, BadFen, <<1, "b">>}
BadMove     == <<0, 9>>
MoveInputs  == {None, BadMove, <<0, 1>>, <<0, 2>>, <<1, 2>>, <<2, 3>>}
TopNInputs  == {1, 5}
SquareInputs == {None, Some(0), Some(9)}

\* engine behaviours: no failure with each first choice, a failure before,
\* inside and after the per-move loop
DefaultRun ==
    [fail |-> "none", at |-> 1, rank |-> <<1, 2, 3>>,
     info_scores |-> <<Cp(30), Cp(10), Cp(-20)>>,
     loop_scores |-> <<Cp(-30), Cp(-10), Cp(20)>>,
     main_score  |-> Cp(30)]

Runs ==
    {[DefaultRun EXCEPT !.rank = k] : k \in {<<1, 2, 3>>, <<2, 1, 3>>, <<3, 2, 1>>}}
    \cup {[DefaultRun EXCEPT !.fail = f] : f \in {"popen", "main"}}
    \cup {[DefaultRun EXCEPT !.fail = "loop", !.at = i] : i \in 1..2}

\* remote answers: a timeout, an empty 'pvs', and one variation for a move
\* from each square
DefaultReply ==
    [fail |-> "none", status |-> 200, has_pvs |-> TRUE,
     pvs |-> << [moves |-> <<0, 1>>, cp |-> Some(30), mate |-> None] >>]

Replies ==
    {[DefaultReply EXCEPT !.pvs = << [moves |-> <<s, s + 1>>, cp |-> Some(30),
                                      mate |-> None] >>] : s \in 0..(TrackLen - 1)}
    \cup {[DefaultReply EXCEPT !.fail = "timeout"],
          [DefaultReply EXCEPT !.pvs = <<>>]}

DefaultEnv == [run |-> DefaultRun, reply |-> DefaultReply]

\* the environments worth distinguishing for a request: the engine's
\* behaviour matters only when the handler calls an adapter
Envs(engine_type, called) ==
    IF ~called THEN {DefaultEnv}
    ELSE IF engine_type = "lichess"
    THEN {[DefaultEnv EXCEPT !.reply = q] : q \in Replies}
    ELSE {[DefaultEnv EXCEPT !.run = r] : r \in Runs}

\* ---------------------------------------------------------------- state
\* games:  the store
\* req:    the request being answered (NoReq when the server is idle), its
\*         fields after the handler's data.get(..., default), with the
\*         engine behaviour env it met
\* resp:   the response to req (NoResp when the server is idle)
\* before: the store as it was when req arrived (history variable)
\* threads: the make_move requests being handled concurrently, each with its
\*         position in the handler and its local variables (empty when
\*         requests are handled one at a time)
VARIABLES games, req, resp, before, threads

vars == <<games, req, resp, before, threads>>

NoReq ==
    [endpoint |-> "", game_id |-> "", fen |-> None, move |-> None,
     color |-> "", strength |-> 0, engine |-> "", top_n |-> 0,
     square |-> None, env |-> DefaultEnv]

Init ==
    /\ games = << >>
    /\ req = NoReq
    /\ resp = NoResp
    /\ before = << >>
    /\ threads = << >>

Idle == req = NoReq

\* a field that get_or_create_game reads only when it creates the session
\* need not vary when the session exists
OnCreate(game_id, values, default) ==
    IF game_id \in DOMAIN games THEN {default} ELSE values

\* Requests are handled one at a time (Idle), each to completion: the
\* handler replaces the store and produces the response in one step.  The history
\* of every session stays within the model's bound.
Handled(request, r) ==
    /\ \A i \in DOMAIN r.games : Len(r.games[i].moves) <= MaxMoves
    /\ games' = r.games
    /\ resp' = r.resp
    /\ req' = request
    /\ before' = games
    /\ UNCHANGED threads

NewGame ==
    /\ Idle
    /\ \E game_id \in GameIds, color \in Colors, strength \in Strengths,
       engine \in EngineNames, fen \in FenInputs :
      \E env \in Envs(engine, new_game(games, game_id, color, strength, engine,
                                       fen, DefaultEnv).called) :
        Handled([NoReq EXCEPT !.endpoint = "new_game", !.game_id = game_id,
                              !.color = color, !.strength = strength,
                              !.engine = engine, !.fen = fen, !.env = env],
                new_game(games, game_id, color, strength, engine, fen, env))

MakeMoveWith(fens) ==
    /\ Idle
    /\ \E game_id \in GameIds, move \in MoveInputs, fen \in fens,
       engine \in EngineNames :
      \E strength \in OnCreate(game_id, Strengths, 20) :
      \E env \in Envs(engine, make_move(games, game_id, move, fen, engine,
                                        strength, DefaultEnv).called) :
        Handled([NoReq EXCEPT !.endpoint = "make_move", !.game_id = game_id,
                              !.move = move, !.fen = fen, !.engine = engine,
                              !.strength = strength, !.env = env],
                make_move(games, game_id, move, fen, engine, strength, env))

MakeMove == MakeMoveWith(FenInputs)

SyncPosition ==
    /\ Idle
    /\ \E game_id \in GameIds, fen \in FenInputs :
      \E color \in OnCreate(game_id, Colors, "white"),
         strength \in OnCreate(game_id, Strengths, 20) :
        Handled([NoReq EXCEPT !.endpoint = "sync_position", !.game_id = game_id,
                              !.fen = fen, !.color = color, !.strength = strength],
                sync_position(games, game_id, fen, color, strength))

AnalyzePosition ==
    /\ Idle
    /\ \E game_id \in GameIds, engine \in EngineNames, top_n \in TopNInputs,
       fen \in FenInputs :
      \E env \in Envs(engine, analyze_position(games, game_id, engine, top_n,
                                               fen, DefaultEnv).called) :
        Handled([NoReq EXCEPT !.endpoint = "analyze_position", !.game_id = game_id,
                              !.engine = engine, !.top_n = top_n, !.fen = fen,
                              !.env = env],
                analyze_position(games, game_id, engine, top_n, fen, env))

SetEngineStrength ==
    /\ Idle
    /\ \E game_id \in GameIds, strength \in StrengthInputs, fen \in FenInputs :
        Handled([NoReq EXCEPT !.endpoint = "set_engine_strength",
                              !.game_id = game_id, !.strength = strength,
                              !.fen = fen],
                set_engine_strength(games, game_id, strength, fen))

GetCaptureMoves ==
    /\ Idle
    /\ \E game_id \in GameIds, engine \in EngineNames, fen \in FenInputs :
      \E env \in Envs(engine, get_capture_moves(games, game_id, engine, fen,
                                                DefaultEnv).called) :
        Handled([NoReq EXCEPT !.endpoint = "get_capture_moves", !.game_id = game_id,
                              !.engine = engine, !.fen = fen, !.env = env],
                get_capture_moves(games, game_id, engine, fen, env))

LegalMoves ==
    /\ Idle
    /\ \E game_id \in GameIds, square \in SquareInputs, fen \in FenInputs :
        Handled([NoReq EXCEPT !.endpoint = "legal_moves", !.game_id = game_id,
                              !.square = square, !.fen = fen],
                legal_moves(games, game_id, square, fen))

CompareEngines ==
    /\ Idle
    /\ \E game_id \in GameIds, fen \in FenInputs :
      \E env \in IF compare_engines(games, game_id, fen, DefaultEnv).called
                 THEN {[run |-> r, reply |-> q] :
                          r \in Runs,
                          q \in {DefaultReply, [DefaultReply EXCEPT !.fail = "timeout"]}}
                 ELSE {DefaultEnv} :
        Handled([NoReq EXCEPT !.endpoint = "compare_engines", !.game_id = game_id,
                              !.fen = fen, !.env = env],
                compare_engines(games, game_id, fen, env))

\* the response is sent; the server is idle again
Respond ==
    /\ req # NoReq
    /\ req' = NoReq
    /\ resp' = NoResp
    /\ before' = << >>
    /\ UNCHANGED <<games, threads>>

Next ==
    \/ NewGame
    \/ MakeMove
    \/ SyncPosition
    \/ AnalyzePosition
    \/ SetEngineStrength
    \/ GetCaptureMoves
    \/ LegalMoves
    \/ CompareEngines
    \/ Respond

Spec == Init /\ [][Next]_vars

\* the server reached from an empty store by make_move requests without fen
MakeMoveNoFen == MakeMoveWith({None})

NextMoves ==
    \/ MakeMoveNoFen
    \/ Respond

SpecMoves == Init /\ [][NextMoves]_vars

\* ------------------------------------------------------------ properties
\* In the state right after a request was handled, req is the request, resp
\* its response, before the store it found and games the store it left.

\* the session the request in flight addressed, as it was and as it is
Was == before[req.game_id]
Now == games[req.game_id]

\* C1: after any sequence of make_move requests without fen, every
\* session's board is the position reached by replaying its moves list from
\* the standard starting position.
C1_BoardIsReplayOfMoves ==
    \A id \in DOMAIN games :
        games[id].board = Replay(StartPos, games[id].moves)

\* C2: a make_move without fen on an existing session, with a well-formed
\* move that is not legal on the current board, is answered 400 "Illegal
\* move" with the unchanged FEN, and leaves board FEN and moves list as they
\* were.
C2_Case ==
    /\ req.endpoint = "make_move"
    /\ Falsy(req.fen)
    /\ req.game_id \in DOMAIN before
    /\ WellFormed(req.move)
    /\ ~(from_uci(req.move) \in Range(board_legal_moves(Was.board)))

C2_IllegalMoveRejected ==
    C2_Case =>
        /\ resp.status = 400
        /\ resp.error = "Illegal move"
        /\ Fen(Now.board) = Fen(Was.board)
        /\ Now.moves = Was.moves
        /\ resp.fen = Fen(Was.board)

C2_Witness ==
    /\ C2_Case
    /\ Len(Was.moves) > 0
    /\ resp.status = 400

\* C3: an analyze_position, get_capture_moves or compare_engines request
\* without fen leaves every session's board and moves list as they were, on
\* every exit path.
C3_AnalysisNeverMoves ==
    (/\ req.endpoint \in {"analyze_position", "get_capture_moves", "compare_engines"}
     /\ Falsy(req.fen))
    => /\ DOMAIN games = DOMAIN before
       /\ \A id \in DOMAIN games :
            /\ games[id].board = before[id].board
            /\ games[id].moves = before[id].moves

\* C4: a make_move (without fen, on an existing session) with a legal move
\* that does not end the game, when the selected adapter returns None, is
\* answered 200 with success, an error note and no ai_move; afterwards the
\* board is the previous position plus the player's move and the moves list
\* is the previous list plus that move.
C4_Case ==
    /\ req.endpoint = "make_move"
    /\ Falsy(req.fen)
    /\ req.game_id \in DOMAIN before
    /\ WellFormed(req.move)
    /\ from_uci(req.move) \in Range(board_legal_moves(Was.board))
    /\ ~is_game_over(push(Was.board, from_uci(req.move)))
    /\ ~get_engine_move(
            [before EXCEPT ![req.game_id].board = push(@, from_uci(req.move)),
                           ![req.game_id].moves = Append(@, req.move)],
            req.game_id, req.engine, req.env).analysis.ok

C4_PlayerMoveCommittedOnEngineFailure ==
    C4_Case =>
        /\ resp.status = 200
        /\ resp.success
        /\ resp.error # ""
        /\ resp.ai_move = None
        /\ Now.board = push(Was.board, from_uci(req.move))
        /\ Now.moves = Append(Was.moves, req.move)

\* C6: a request on any of the seven endpoints that names an identifier
\* without a session and carries no fen is answered 404 and leaves the
\* store without a session for that identifier.
LookupEndpoints ==
    {"analyze_position", "set_engine_strength", "get_capture_moves",
     "legal_moves", "compare_engines"}

C6_Case(endpoints) ==
    /\ req.endpoint \in endpoints
    /\ req.game_id \notin DOMAIN before
    /\ Falsy(req.fen)

C6_AllLookupsFailClosed ==
    C6_Case(LookupEndpoints \cup {"make_move", "new_game"}) =>
        /\ resp.status = 404
        /\ req.game_id \notin DOMAIN games

\* C6 (amended): the five endpoints analyze_position, set_engine_strength,
\* get_capture_moves, legal_moves and compare_engines answer 404 and create
\* no session; make_move and new_game create the session instead, and do
\* not answer 404.
C6_LookupsFailClosed ==
    /\ C6_Case(LookupEndpoints) =>
        /\ resp.status = 404
        /\ req.game_id \notin DOMAIN games
    /\ C6_Case({"make_move", "new_game"}) =>
        /\ resp.status # 404
        /\ req.game_id \in DOMAIN games

C6_Witness ==
    /\ C6_Case(LookupEndpoints)
    /\ resp.status = 404
    /\ games = << >>

\* C7: a set_engine_strength request on an existing session with a strength
\* outside 1..20 (and no fen, or a fen the rules library accepts) is
\* answered 400 and leaves the stored engine_strength as it was.
C7_Case ==
    /\ req.endpoint = "set_engine_strength"
    /\ req.game_id \in DOMAIN before
    /\ ~(req.strength \in 1..20)
    /\ Falsy(req.fen) \/ ValidFen(req.fen)

C7_BadStrengthRejected ==
    C7_Case =>
        /\ resp.status = 400
        /\ Now.engine_strength = Was.engine_strength

C7_Witness ==
    /\ C7_Case
    /\ req.strength = 25
    /\ Falsy(req.fen)
    /\ resp.status = 400
    /\ Was.engine_strength = 5

\* C8: every session's stored engine_strength is in 1..20.
C8_StrengthInRange ==
    \A id \in DOMAIN games : games[id].engine_strength \in 1..20

\* C9: a new_game request with no body fields (every field at its default)
\* is answered with the standard starting position and engine_strength 20,
\* whatever the store held.
C9_Case ==
    /\ req.endpoint = "new_game"
    /\ req.game_id = "default"
    /\ req.color = "white"
    /\ req.strength = 20
    /\ req.engine = "stockfish"
    /\ req.fen = None

C9_NewGameStartsFromStart ==
    C9_Case =>
        /\ resp.fen = StartFen
        /\ resp.engine_strength = Some(20)

\* C10: after a sync_position request, a second sync_position with the same
\* identifier and the same FEN (whatever its other fields) leaves the store
\* as the first one left it.
C10_SyncIdempotent ==
    req.endpoint = "sync_position" =>
        \A color \in Colors, strength \in Strengths :
            sync_position(games, req.game_id, req.fen, color, strength).games = games

C10_Witness ==
    /\ req.endpoint = "sync_position"
    /\ resp.status = 200
    /\ req.game_id \in DOMAIN before
    /\ Len(Was.moves) > 0
    /\ Now.board # Was.board

\* C15: on make_move, new_game, analyze_position and get_capture_moves an
\* engine name other than stockfish, lichess and chesscom selects the Local
\* adapter: the request is answered, and leaves every board and moves list,
\* as the same request naming "stockfish" would.
KnownEngines == {"stockfish", "lichess", "chesscom"}

C15_Case ==
    /\ req.endpoint \in {"make_move", "new_game", "analyze_position",
                         "get_capture_moves"}
    /\ req.engine \notin KnownEngines

\* the outcome of the request in flight had it named the engine `engine`
WithEngine(engine) ==
    IF req.endpoint = "make_move"
    THEN make_move(before, req.game_id, req.move, req.fen, engine,
                   req.strength, req.env)
    ELSE IF req.endpoint = "new_game"
    THEN new_game(before, req.game_id, req.color, req.strength, engine,
                  req.fen, req.env)
    ELSE IF req.endpoint = "analyze_position"
    THEN analyze_position(before, req.game_id, engine, req.top_n, req.fen,
                          req.env)
    ELSE get_capture_moves(before, req.game_id, engine, req.fen, req.env)

C15_EngineSelectionUniform ==
    C15_Case =>
        LET r == WithEngine("stockfish")
        IN  /\ resp = r.resp
            /\ DOMAIN games = DOMAIN r.games
            /\ \A id \in DOMAIN games :
                 /\ games[id].board = r.games[id].board
                 /\ games[id].moves = r.games[id].moves

\* C16: an analyze_position request (known engine, no fen) on a session
\* whose board has no legal move, the engine subprocess and the remote
\* service working, is answered 200 with no best move and game_over true.
C16_Case ==
    /\ req.endpoint = "analyze_position"
    /\ req.engine \in KnownEngines
    /\ Falsy(req.fen)
    /\ req.game_id \in DOMAIN before
    /\ Len(board_legal_moves(Was.board)) = 0
    /\ req.env.run.fail = "none"
    /\ req.env.reply.fail = "none"
    /\ SkillLevelAccepted(Was.engine_strength)

C16_TerminalPositionReported ==
    C16_Case =>
        /\ resp.status = 200
        /\ resp.best_move = None
        /\ resp.game_over

\* C19: after any sequence of requests, every session's board is the
\* position reached by replaying its moves list from some starting position.
C19_BoardIsReplayFromStart ==
    \A id \in DOMAIN games :
        \E start \in Boards : games[id].board = Replay(start, games[id].moves)

C27_ExistingSessionOnlyBoardReplaced ==
    \A id \in DOMAIN games, player_color \in Colors,
       engine_strength \in Strengths \cup StrengthInputs :
        /\ get_or_create_game(games, id, None, player_color,
                              engine_strength).games = games
        /\ \A fen \in FenInputs :
              ValidFen(fen) =>
                get_or_create_game(games, id, fen, player_color,
                                   engine_strength).games
                    = [games EXCEPT ![id].board = Board(fen)]

C27_Witness ==
    /\ req.endpoint = "sync_position"
    /\ req.game_id \in DOMAIN before
    /\ ValidFen(req.fen)
    /\ Len(Was.moves) > 0
    /\ Was.engine_strength = 5
    /\ Was.engine_strength # req.strength
    /\ Was.current_engine = "lichess"
    /\ Was.board # Board(req.fen)
    /\ games = [before EXCEPT ![req.game_id].board = Board(req.fen)]

\* C23: a direct analysis request (analyze_position, get_capture_moves) on
\* an existing session with a recognised engine (and no fen, or a fen the
\* rules library accepts) is answered 500 exactly when the chosen adapter
\* returns no analysis and 200 with the analysis otherwise; the answer is
\* never the framework's for an uncaught exception.
C23_Case ==
    /\ req.endpoint \in {"analyze_position", "get_capture_moves"}
    /\ req.game_id \in DOMAIN before
    /\ req.engine \in KnownEngines
    /\ Falsy(req.fen) \/ ValidFen(req.fen)

\* what the chosen adapter returns on the store the handler hands it
C23_Chosen ==
    LET g1    == SyncIfFen(before, req.game_id, req.fen).games
        top_n == IF req.endpoint = "analyze_position" THEN req.top_n ELSE 5
    IN  IF req.engine = "stockfish"
        THEN analyze_position_stockfish(g1, req.game_id, top_n, req.env.run)
        ELSE IF req.engine = "lichess"
        THEN analyze_position_lichess(g1, req.game_id, top_n, req.env.reply)
        ELSE analyze_position_chesscom(g1, req.game_id, req.env.run)

C23_UnavailableIs500 ==
    C23_Case =>
        /\ resp.status = (IF C23_Chosen.analysis.ok THEN 200 ELSE 500)
        /\ resp.error # "Internal Server Error"
        /\ resp.status = 500 => resp.error = "Analysis error"
        /\ (resp.status = 200 /\ req.endpoint = "analyze_position") =>
              /\ resp.best_move = C23_Chosen.analysis.best_move
              /\ resp.fen = C23_Chosen.analysis.fen

C23_Witness ==
    /\ C23_Case
    /\ req.endpoint = "get_capture_moves"
    /\ req.engine = "lichess"
    /\ ~C23_Chosen.analysis.ok
    /\ resp.status = 500

\* the board get_or_create_game hands make_move and new_game
PlayerBoard ==
    IF ValidFen(req.fen) THEN Board(req.fen)
    ELSE IF req.game_id \in DOMAIN before THEN Was.board
    ELSE StartPos

\* the board after make_move has pushed the player's move
AfterPlayerMove == push(PlayerBoard, from_uci(req.move))

\* C28: a make_move request rejected with 400 because its move is malformed
\* or illegal leaves the store as it found it: no session created,
\* current_engine and board unchanged.
C28_Case ==
    /\ req.endpoint = "make_move"
    /\ resp.status = 400
    /\ ~WellFormed(req.move) \/ ~IsLegal(PlayerBoard, from_uci(req.move))

C28_RejectedMoveMutatesNothing ==
    C28_Case => games = before

\* C30: a make_move whose move is legal and leaves the opponent a move, and
\* whose analysis succeeds, appends the player's move and then the analysis's
\* best_move to the moves list, pushes the two moves in that order, and
\* returns the session's whole moves list as moves_history.
\* the session make_move hands to the engine, and the engine's answer
C30_Moves ==
    (IF req.game_id \in DOMAIN before THEN Was.moves ELSE <<>>) \o <<req.move>>

C30_Answer ==
    LET g1 == get_or_create_game(before, req.game_id, req.fen, "white",
                                 req.strength).games
        g2 == [g1 EXCEPT ![req.game_id].current_engine = req.engine,
                         ![req.game_id].board = AfterPlayerMove,
                         ![req.game_id].moves = C30_Moves]
    IN  get_engine_move(g2, req.game_id, req.engine, req.env).analysis

C30_Case ==
    /\ req.endpoint = "make_move"
    /\ Falsy(req.fen) \/ ValidFen(req.fen)
    /\ WellFormed(req.move)
    /\ IsLegal(PlayerBoard, from_uci(req.move))
    /\ Len(board_legal_moves(AfterPlayerMove)) > 0
    /\ C30_Answer.ok

C30_TwoMovesAppended ==
    C30_Case =>
        /\ resp.status = 200
        /\ Now.moves = C30_Moves \o <<C30_Answer.best_move>>
        /\ Now.board = push(AfterPlayerMove, from_uci(C30_Answer.best_move))
        /\ resp.ai_move = C30_Answer.best_move
        /\ resp.moves_history = Now.moves

C30_Witness ==
    /\ C30_Case
    /\ req.game_id \in DOMAIN before
    /\ Len(Was.moves) = 0
    /\ Was.board.sq = 0
    /\ req.move = <<0, 1>>
    /\ resp.moves_history = <<<<0, 1>>, <<1, 2>>>>
    /\ Now.board.sq = 2
    /\ ~resp.game_over

\* C31: when the player's legal move in make_move ends the game, the engine
\* is not invoked, the response has game_over true and no ai_move, the moves
\* list grows by exactly the player's move, and the session stays in the
\* store.
C31_Case ==
    /\ req.endpoint = "make_move"
    /\ Falsy(req.fen) \/ ValidFen(req.fen)
    /\ WellFormed(req.move)
    /\ IsLegal(PlayerBoard, from_uci(req.move))
    /\ Len(board_legal_moves(AfterPlayerMove)) = 0

C31_GameEndingMove ==
    C31_Case =>
        /\ resp.status = 200
        /\ resp.game_over
        /\ resp.ai_move = None
        /\ resp.error = ""
        /\ ~make_move(before, req.game_id, req.move, req.fen, req.engine,
                      req.strength, req.env).called
        /\ req.game_id \in DOMAIN games
        /\ Now.moves = C30_Moves
        /\ Now.board = AfterPlayerMove

C31_Witness ==
    /\ C31_Case
    /\ req.game_id \in DOMAIN before
    /\ Len(Was.moves) = 1
    /\ req.move = <<2, 3>>
    /\ resp.game_over
    /\ Len(Now.moves) = 2
    /\ Now.board.sq = TrackLen
    /\ ENABLED Respond

\* list `a` is a prefix of list `b`
IsPrefix(a, b) == Len(a) <= Len(b) /\ SubSeq(b, 1, Len(a)) = a

C33_Case ==
    /\ req.endpoint \in {"make_move", "new_game", "sync_position"}
    /\ resp.status = 200

C33_ResponseFenIsBoardFen ==
    C33_Case => resp.fen = Fen(Now.board)

\* C36: a request that carries a fen the rules library rejects leaves the
\* store as it found it: no session is created, and an existing session
\* keeps its board, its moves and every other field.
C36_Case ==
    /\ req # NoReq
    /\ ~Falsy(req.fen)
    /\ ~ValidFen(req.fen)

C36_InvalidFenMutatesNothing ==
    /\ C36_Case => games = before
    /\ \A id \in GameIds, player_color \in Colors, engine_strength \in Strengths :
          /\ get_or_create_game(games, id, BadFen, player_color,
                                engine_strength).raised
          /\ get_or_create_game(games, id, BadFen, player_color,
                                engine_strength).games = games

C36_Witness ==
    /\ C36_Case
    /\ req.endpoint = "make_move"
    /\ req.game_id \in DOMAIN before
    /\ Len(Was.moves) > 0
    /\ WellFormed(req.move)
    /\ IsLegal(Was.board, from_uci(req.move))
    /\ resp.status = 500
    /\ games = before

\* ------------------------------------------- moves of the Cloud service
\* The requests that push an engine move, answered by the Cloud adapter,
\* where the remote service may name any move between two squares in its
\* variation.
CloudReplies ==
    {[DefaultReply EXCEPT !.pvs = << [moves |-> <<s, t>>, cp |-> Some(30),
                                      mate |-> None] >>] :
        <<s, t>> \in {m \in Squares \X Squares : m[1] # m[2]}}
    \cup {[DefaultReply EXCEPT !.fail = "timeout"]}

CloudEnvs(called) ==
    IF called THEN {[DefaultEnv EXCEPT !.reply = q] : q \in CloudReplies}
    ELSE {DefaultEnv}

NewGameCloud ==
    /\ Idle
    /\ \E game_id \in GameIds, color \in Colors, fen \in FenInputs :
      \E env \in CloudEnvs(new_game(games, game_id, color, 20, "lichess", fen,
                                    DefaultEnv).called) :
        Handled([NoReq EXCEPT !.endpoint = "new_game", !.game_id = game_id,
                              !.color = color, !.strength = 20,
                              !.engine = "lichess", !.fen = fen, !.env = env],
                new_game(games, game_id, color, 20, "lichess", fen, env))

MakeMoveCloud ==
    /\ Idle
    /\ \E game_id \in GameIds, move \in MoveInputs, fen \in FenInputs :
      \E env \in CloudEnvs(make_move(games, game_id, move, fen, "lichess", 20,
                                     DefaultEnv).called) :
        Handled([NoReq EXCEPT !.endpoint = "make_move", !.game_id = game_id,
                              !.move = move, !.fen = fen, !.engine = "lichess",
                              !.strength = 20, !.env = env],
                make_move(games, game_id, move, fen, "lichess", 20, env))

NextCloud ==
    \/ NewGameCloud
    \/ MakeMoveCloud
    \/ Respond

SpecCloud == Init /\ [][NextCloud]_vars

\* C29: every move pushed onto a session's board is a legal move of the
\* board at the instant it is pushed: the player's move in make_move, and
\* the engine's best_move in make_move and in new_game.
C29_PushedMovesLegal ==
    /\ (req.endpoint = "make_move" /\ resp.success) =>
          IsLegal(PlayerBoard, from_uci(req.move))
    /\ (req.endpoint = "make_move" /\ resp.ai_move # None) =>
          IsLegal(AfterPlayerMove, from_uci(resp.ai_move))
    /\ (req.endpoint = "new_game" /\ resp.ai_move # None) =>
          IsLegal(PlayerBoard, from_uci(resp.ai_move))

\* ------------------------------------------------ the adapters alone
\* Each adapter is called on a session holding any position, with any of a
\* wider range of engine and service behaviours than the handlers above
\* meet.  During a call req names the adapter and its arguments, before is
\* the store the call found, and resp is the EngineAnalysis it returned
\* (NoAnalysis for None).
Scores == {Cp(-20), Cp(30), Mate(2), Mate(-1)}

\* engine runs without a failure: every choice of scores for the positions
\* after the legal moves; the first variation's score is the score of the
\* position itself
AdapterRuns ==
    {[DefaultRun EXCEPT !.rank = k,
                        !.loop_scores = <<a, b, c>>,
                        !.info_scores = <<m, Cp(10), Cp(-20)>>,
                        !.main_score = m] :
        k \in {<<1, 2, 3>>, <<3, 2, 1>>}, a \in Scores, b \in Scores,
        c \in Scores, m \in Scores}
    \cup {r \in Runs : r.fail # "none"}

\* one variation as the remote service reports it
Variations ==
    {[moves |-> <<s, s + 1>>, cp |-> c, mate |-> m] :
        s \in 0..(TrackLen - 1), c \in {None, Some(30)}, m \in {None, Some(-1)}}
    \cup {[moves |-> BadMove, cp |-> Some(30), mate |-> None]}

AdapterReplies ==
    {[DefaultReply EXCEPT !.pvs = <<v>>] : v \in Variations}
    \cup {[DefaultReply EXCEPT !.pvs = <<v, DefaultReply.pvs[1]>>] : v \in Variations}
    \cup {[DefaultReply EXCEPT !.fail = "timeout"],
          [DefaultReply EXCEPT !.status = 404],
          [DefaultReply EXCEPT !.has_pvs = FALSE],
          [DefaultReply EXCEPT !.pvs = <<>>]}

InitAdapters ==
    /\ games \in {[id \in {"default"} |->
                     [NewSession(None, "white", strength) EXCEPT !.board = board]] :
                    board \in Boards, strength \in Strengths}
    /\ req = NoReq
    /\ resp = NoResp
    /\ before = << >>
    /\ threads = << >>

\* the adapter's return value and the store it leaves
Returned(request, r) ==
    /\ games' = r.games
    /\ resp' = r.analysis
    /\ req' = request
    /\ before' = games
    /\ UNCHANGED threads

CallStockfish ==
    /\ Idle
    /\ \E game_id \in GameIds, top_n \in TopNInputs, run \in AdapterRuns :
        Returned([NoReq EXCEPT !.endpoint = "analyze_position_stockfish",
                               !.game_id = game_id, !.top_n = top_n,
                               !.env = [DefaultEnv EXCEPT !.run = run]],
                 analyze_position_stockfish(games, game_id, top_n, run))

CallLichess ==
    /\ Idle
    /\ \E game_id \in GameIds, top_n \in TopNInputs, reply \in AdapterReplies :
        Returned([NoReq EXCEPT !.endpoint = "analyze_position_lichess",
                               !.game_id = game_id, !.top_n = top_n,
                               !.env = [DefaultEnv EXCEPT !.reply = reply]],
                 analyze_position_lichess(games, game_id, top_n, reply))

CallChesscom ==
    /\ Idle
    /\ \E game_id \in GameIds, top_n \in TopNInputs, run \in AdapterRuns :
        \* top_n is what the caller asked analyze_position for; the handler
        \* does not pass it on to this adapter
        Returned([NoReq EXCEPT !.endpoint = "analyze_position_chesscom",
                               !.game_id = game_id, !.top_n = top_n,
                               !.env = [DefaultEnv EXCEPT !.run = run]],
                 analyze_position_chesscom(games, game_id, run))

NextAdapters ==
    \/ CallStockfish
    \/ CallLichess
    \/ CallChesscom
    \/ Respond

SpecAdapters == InitAdapters /\ [][NextAdapters]_vars

\* an adapter call has returned an EngineAnalysis
Adapters ==
    {"analyze_position_stockfish", "analyze_position_lichess",
     "analyze_position_chesscom"}

ReturnedAnalysis == req.endpoint \in Adapters /\ resp.ok

\* the position the adapter analysed and its legal moves
Analysed == before[req.game_id].board
AnalysedMoves == board_legal_moves(Analysed)

\* C11: in every EngineAnalysis an adapter returns, all_legal_moves and
\* capture_moves are each in non-increasing order of evaluation.
Sorted(s) ==
    \A i \in 1..Len(s), j \in 1..Len(s) :
        i < j => s[i].evaluation >= s[j].evaluation

C11_MoveListsSorted ==
    ReturnedAnalysis =>
        /\ Sorted(resp.all_legal_moves)
        /\ Sorted(resp.capture_moves)

C11_Witness ==
    /\ ReturnedAnalysis
    /\ req.endpoint = "analyze_position_stockfish"
    /\ Len(resp.all_legal_moves) = 3
    /\ resp.all_legal_moves[1].move = uci(AnalysedMoves[3])
    /\ resp.all_legal_moves[1].evaluation > resp.all_legal_moves[3].evaluation
    /\ Len(resp.capture_moves) = 2
    /\ resp.capture_moves[1].move = uci(AnalysedMoves[3])
    /\ resp.capture_moves[1].evaluation > resp.capture_moves[2].evaluation

\* C12: in every EngineAnalysis an adapter returns, capture_moves is the
\* subsequence of all_legal_moves made of the entries with is_capture true,
\* in the order they have in all_legal_moves (ties included).
C12_CapturesAreSubsequence ==
    ReturnedAnalysis =>
        resp.capture_moves = SelectSeq(resp.all_legal_moves, LAMBDA m : m.is_capture)

C12_Witness ==
    /\ ReturnedAnalysis
    /\ req.endpoint = "analyze_position_stockfish"
    /\ Len(resp.all_legal_moves) = 3
    /\ Len(resp.capture_moves) = 2
    /\ resp.capture_moves[1].evaluation = resp.capture_moves[2].evaluation
    /\ ~resp.all_legal_moves[3].is_capture
    /\ resp.capture_moves[2].evaluation > resp.all_legal_moves[3].evaluation

\* the same value seen from White when `turn` is the side to move
WhiteRelative(turn, score) == IF turn = "w" THEN Raw(score) ELSE -Raw(score)

\* C13: the position_evaluation of the Local and Fallback adapters is the
\* engine's raw score when White is to move and its negation when Black is
\* to move.
C13_Case ==
    /\ ReturnedAnalysis
    /\ req.endpoint \in {"analyze_position_stockfish", "analyze_position_chesscom"}

C13_PositionEvaluationWhiteRelative ==
    C13_Case =>
        resp.position_evaluation = WhiteRelative(Analysed.turn, req.env.run.main_score)

C13_Witness ==
    /\ C13_Case
    /\ Analysed.turn = "b"
    /\ req.env.run.main_score.is_mate
    /\ resp.position_evaluation = 10000

\* C14: when Black is to move, every evaluation in top_moves and in
\* all_legal_moves of the Local adapter's EngineAnalysis is White-relative,
\* like position_evaluation.  (The score of a variation is relative to the
\* side to move; the score of the position after a move is relative to the
\* other side, here White.)
C14_Case ==
    /\ ReturnedAnalysis
    /\ req.endpoint = "analyze_position_stockfish"
    /\ Analysed.turn = "b"

C14_OneSignConvention ==
    C14_Case =>
        /\ \A j \in 1..Len(resp.top_moves) :
             resp.top_moves[j].evaluation =
                WhiteRelative("b", req.env.run.info_scores[j])
        /\ \A i \in 1..Len(AnalysedMoves) :
             \E k \in 1..Len(resp.all_legal_moves) :
                /\ resp.all_legal_moves[k].move = uci(AnalysedMoves[i])
                /\ resp.all_legal_moves[k].evaluation =
                      WhiteRelative("w", req.env.run.loop_scores[i])

\* C17: the Cloud adapter never changes the store, and returns None when the
\* request times out or raises, the status is not 200, the answer has no
\* 'pvs' or 'pvs' is empty: it returns an EngineAnalysis only for a 200
\* answer with at least one variation.
C17_Case == req.endpoint = "analyze_position_lichess"

C17_CloudUnavailable ==
    C17_Case =>
        /\ games = before
        /\ resp.ok =>
             /\ req.env.reply.fail = "none"
             /\ req.env.reply.status = 200
             /\ req.env.reply.has_pvs
             /\ Len(req.env.reply.pvs) > 0

C17_Witness ==
    /\ C17_Case
    /\ req.env.reply.status # 200
    /\ Len(req.env.reply.pvs) > 0
    /\ piece_at(Analysed, from_uci(req.env.reply.pvs[1].moves).from_square)
    /\ ~resp.ok

\* C18: the Fallback adapter returns an EngineAnalysis exactly when the
\* position has a legal move, whatever the engine subprocess does, and its
\* best move is then the first legal move in enumeration order.
C18_Case == req.endpoint = "analyze_position_chesscom"

C18_FallbackAlwaysSucceeds ==
    C18_Case =>
        /\ resp.ok <=> Len(AnalysedMoves) > 0
        /\ resp.ok => resp.best_move = uci(AnalysedMoves[1])

\* every MoveEvaluation of the returned analysis
Evaluations ==
    Range(resp.top_moves) \cup Range(resp.all_legal_moves)
        \cup Range(resp.capture_moves)

\* C21: in every MoveEvaluation an adapter produces, mate_in is present
\* exactly when is_mate is true, and an entry with is_mate true has
\* evaluation +10000 or -10000.
C21_MateInIffIsMate ==
    ReturnedAnalysis =>
        \A e \in Evaluations :
            /\ (e.mate_in # None) <=> e.is_mate
            /\ e.is_mate => e.evaluation \in {10000, -10000}

C21_Witness ==
    /\ ReturnedAnalysis
    /\ req.endpoint = "analyze_position_stockfish"
    /\ resp.top_moves[1].is_mate
    /\ resp.top_moves[1].mate_in = Some(-1)
    /\ \E e \in Range(resp.capture_moves) : e.is_mate /\ e.mate_in = Some(2)
    /\ \E e \in Range(resp.all_legal_moves) : ~e.is_mate /\ e.mate_in = None

\* C24: in every EngineAnalysis an adapter returns, all_legal_moves lists
\* the legal moves of the analysed board, each exactly once, and fen is the
\* FEN of the board the call found.
C24_AllLegalMovesListed ==
    ReturnedAnalysis =>
        /\ Len(resp.all_legal_moves) = Len(AnalysedMoves)
        /\ {e.move : e \in Range(resp.all_legal_moves)}
              = {uci(m) : m \in Range(AnalysedMoves)}
        /\ resp.fen = Fen(Analysed)

C24_Witness ==
    /\ ReturnedAnalysis
    /\ req.endpoint = "analyze_position_stockfish"
    /\ Len(AnalysedMoves) = 3
    /\ resp.all_legal_moves[1].move = uci(AnalysedMoves[2])
    /\ resp.all_legal_moves[3].move = uci(AnalysedMoves[1])
    /\ Analysed.turn = "b"

\* C25: in every successful analysis top_moves has as many entries as the
\* caller requested, whichever adapter is selected, and best_move is the
\* move of the first entry.
C25_TopMovesSizeIsRequested ==
    ReturnedAnalysis =>
        /\ Len(resp.top_moves) = req.top_n
        /\ resp.best_move = resp.top_moves[1].move

\* C26: in the Local adapter's per-move loop the recorded evaluation is the
\* negation of the raw score of the position after the move, for mate scores
\* as for centipawn scores.
C26_Case ==
    /\ ReturnedAnalysis
    /\ req.endpoint = "analyze_position_stockfish"

C26_LoopEvaluationNegated ==
    C26_Case =>
        \A i \in 1..Len(AnalysedMoves) :
            \E e \in Range(resp.all_legal_moves) :
                /\ e.move = uci(AnalysedMoves[i])
                /\ e.evaluation = -Raw(req.env.run.loop_scores[i])

\* ------------------------------------------- concurrent make_move requests
\* The development server handles each request in its own thread and the
\* handlers take no lock.  Two make_move requests (no fen) run concurrently,
\* each for the session its game_id names; a step is one statement of the
\* handler.  The engine analysis is one step here and leaves the board alone
\* (its own push/pop is not what this specification is about).
Threads   == {1, 2}
RaceMoves == {<<0, 1>>, <<0, 2>>, <<1, 2>>}
RaceRuns  == {r \in Runs : r.fail \in {"none", "popen"}}

\* the stores the two requests may find: the one a new_game request leaves
RaceStores ==
    {new_game(<< >>, "default", "white", 20, "stockfish", fen, DefaultEnv).games :
        fen \in {None, <<1, "b">>}}

InitRace ==
    /\ games \in RaceStores
    /\ before = games
    /\ req = NoReq
    /\ resp = NoResp
    /\ threads \in [Threads -> {[pc |-> "lookup", game_id |-> "default",
                                 move |-> m, best |-> None, run |-> DefaultRun,
                                 pushed_illegal |-> FALSE] : m \in RaceMoves}]

Session == games["default"]

\* a variant in which every request addresses the first request's session
SessionKeyShared(t) == threads[1].game_id

\* games[game_id]: the session a request addresses
SessionKey(t) == threads[t].game_id

\* game_data = get_or_create_game(...); game_data['current_engine'] = ...;
\* board = game_data['board']
Lookup ==
    \E t \in Threads :
      /\ threads[t].pc = "lookup"
      /\ games' = [get_or_create_game(games, SessionKey(t), None, "white", 20).games
                      EXCEPT ![SessionKey(t)].current_engine = "stockfish"]
      /\ threads' = [threads EXCEPT ![t].pc = "check"]
      /\ UNCHANGED <<req, resp, before>>

\* move = chess.Move.from_uci(move_uci); if move in board.legal_moves
Check ==
    \E t \in Threads :
      /\ threads[t].pc = "check"
      /\ threads' = [threads EXCEPT ![t].pc =
                        IF IsLegal(games[SessionKey(t)].board, from_uci(threads[t].move))
                        THEN "push" ELSE "done"]
      /\ UNCHANGED games
      /\ UNCHANGED <<req, resp, before>>

\* board.push(move)
PushMove ==
    \E t \in Threads :
      /\ threads[t].pc = "push"
      /\ games' = [games EXCEPT ![SessionKey(t)].board = push(@, from_uci(threads[t].move))]
      /\ threads' = [threads EXCEPT
                        ![t].pc = "append",
                        ![t].pushed_illegal =
                            @ \/ from_uci(threads[t].move)
                                    \notin Range(board_legal_moves(games[SessionKey(t)].board))]
      /\ UNCHANGED <<req, resp, before>>

\* game_data['moves'].append(move_uci)
AppendMove ==
    \E t \in Threads :
      /\ threads[t].pc = "append"
      /\ games' = [games EXCEPT ![SessionKey(t)].moves = append(@, threads[t].move)]
      /\ threads' = [threads EXCEPT ![t].pc = "over"]
      /\ UNCHANGED <<req, resp, before>>

\* if not board.is_game_over()
GameOverTest ==
    \E t \in Threads :
      /\ threads[t].pc = "over"
      /\ threads' = [threads EXCEPT ![t].pc =
                        IF is_game_over(games[SessionKey(t)].board) THEN "done" ELSE "analyse"]
      /\ UNCHANGED games
      /\ UNCHANGED <<req, resp, before>>

\* analysis = get_engine_move(game_id, engine_type); if analysis
Analyse ==
    \E t \in Threads :
      /\ threads[t].pc = "analyse"
      /\ \E run \in RaceRuns :
           LET r == get_engine_move(games, SessionKey(t), "stockfish",
                                    [DefaultEnv EXCEPT !.run = run])
           IN  threads' = [threads EXCEPT
                              ![t].pc = IF r.analysis.ok THEN "aipush" ELSE "done",
                              ![t].best = r.analysis.best_move,
                              ![t].run = run]
      /\ UNCHANGED games
      /\ UNCHANGED <<req, resp, before>>

\* ai_move = chess.Move.from_uci(analysis.best_move); board.push(ai_move)
PushAiMove ==
    \E t \in Threads :
      /\ threads[t].pc = "aipush"
      /\ games' = [games EXCEPT ![SessionKey(t)].board = push(@, from_uci(threads[t].best))]
      /\ threads' = [threads EXCEPT
                        ![t].pc = "aiappend",
                        ![t].pushed_illegal =
                            @ \/ from_uci(threads[t].best)
                                    \notin Range(board_legal_moves(games[SessionKey(t)].board))]
      /\ UNCHANGED <<req, resp, before>>

\* game_data['moves'].append(analysis.best_move)
AppendAiMove ==
    \E t \in Threads :
      /\ threads[t].pc = "aiappend"
      /\ games' = [games EXCEPT ![SessionKey(t)].moves = append(@, threads[t].best)]
      /\ threads' = [threads EXCEPT ![t].pc = "done"]
      /\ UNCHANGED <<req, resp, before>>

NextRace ==
    \/ Lookup
    \/ Check
    \/ PushMove
    \/ AppendMove
    \/ GameOverTest
    \/ Analyse
    \/ PushAiMove
    \/ AppendAiMove

SpecRace == InitRace /\ [][NextRace]_vars

\* C5: when two concurrent make_move requests on one identifier have both
\* finished, the board is the replay of the moves list from the position the
\* requests found, and every move was legal on the position it was pushed
\* onto.
C5_ConcurrentMovesSerialized ==
    (\A t \in Threads : threads[t].pc = "done") =>
        /\ Session.board = Replay(before["default"].board,
                                  SubSeq(Session.moves,
                                         Len(before["default"].moves) + 1,
                                         Len(Session.moves)))
        /\ \A t \in Threads : ~threads[t].pushed_illegal

\* ------------------------------- concurrent requests on two identifiers
\* The same two requests, the first for identifier "a" and the second for
\* identifier "b", on a store that holds neither, one or both sessions.
Apart == [t \in Threads |-> IF t = 1 THEN "a" ELSE "b"]

ApartStores ==
    {<< >>,
     new_game(<< >>, "a", "white", 20, "stockfish", <<1, "b">>, DefaultEnv).games,
     new_game(new_game(<< >>, "a", "white", 20, "stockfish", None, DefaultEnv).games,
              "b", "black", 5, "stockfish", <<1, "b">>, DefaultEnv).games}

InitApart ==
    /\ games \in ApartStores
    /\ before = games
    /\ req = NoReq
    /\ resp = NoResp
    /\ \E m \in [Threads -> RaceMoves] :
         threads = [t \in Threads |->
                      [pc |-> "lookup", game_id |-> Apart[t], move |-> m[t],
                       best |-> None, run |-> DefaultRun,
                       pushed_illegal |-> FALSE]]

SpecApart == InitApart /\ [][NextRace]_vars

\* the session a request alone leaves behind: the handler run to completion
\* on the store the requests found, with the engine behaviour the request met
Alone(t) ==
    make_move(before, threads[t].game_id, threads[t].move, None, "stockfish",
              20, [DefaultEnv EXCEPT !.run = threads[t].run]).games[threads[t].game_id]

\* C20: under every interleaving of a request on "a" with a request on "b",
\* each session ends as if the other request had not run, and a request
\* that has not finished can always take its next step.
C20_DifferentIdentifiersIsolated ==
    /\ (\A t \in Threads : threads[t].pc = "done") =>
          \A t \in Threads :
             /\ threads[t].game_id \in DOMAIN games
             /\ games[threads[t].game_id] = Alone(t)
    /\ \A t \in Threads :
          threads[t].pc # "done" =>
             ENABLED (NextRace /\ threads'[t] # threads[t])

C20_Witness ==
    /\ \A t \in Threads : threads[t].pc = "done"
    /\ before = << >>
    /\ \A t \in Threads : Len(games[Apart[t]].moves) = 2

\* ------------------------------- concurrent first requests on one identifier
\* Two make_move requests (no fen) for an identifier the store does not hold
\* yet, each in its own thread.  A step is one statement; get_or_create_game
\* is three of them: the membership test, the insertion and the return of
\* games[game_id].  A session is an object: a request keeps working on the
\* object it got from get_or_create_game also when a later insertion has put
\* another object under the key.  attached says that the request's object is
\* the one in the store; otherwise game_data holds it.  wrote lists the
\* entries the request appended to its object's moves.
InitCreate ==
    /\ games = << >>
    /\ before = << >>
    /\ req = NoReq
    /\ resp = NoResp
    /\ threads \in [Threads -> {[pc |-> "test", game_id |-> "default",
                                 move |-> m, best |-> None,
                                 attached |-> FALSE, inserted |-> FALSE,
                                 game_data |-> NewSession(None, "white", 20),
                                 wrote |-> <<>>] : m \in RaceMoves}]

\* the session object the request works on
Mine(t) == IF threads[t].attached THEN games[SessionKey(t)] ELSE threads[t].game_data

\* the request's object becomes `session`, and the request goes on at pc
Write(t, session, pc, wrote) ==
    /\ games' = IF threads[t].attached
                THEN [games EXCEPT ![SessionKey(t)] = session]
                ELSE games
    /\ threads' = [threads EXCEPT ![t].pc = pc,
                                  ![t].wrote = wrote,
                                  ![t].game_data =
                                      IF threads[t].attached THEN @ ELSE session]

\* if game_id not in games
CreateTest ==
    \E t \in Threads :
      /\ threads[t].pc = "test"
      /\ threads' = [threads EXCEPT ![t].pc =
                        IF SessionKey(t) \notin DOMAIN games THEN "insert" ELSE "return"]
      /\ UNCHANGED <<games, req, resp, before>>

\* games[game_id] = {...}: the object that was under the key stays with the
\* requests that hold it
CreateInsert ==
    \E t \in Threads :
      /\ threads[t].pc = "insert"
      /\ games' = [i \in DOMAIN games \cup {SessionKey(t)} |->
                     IF i = SessionKey(t) THEN NewSession(None, "white", 20)
                     ELSE games[i]]
      /\ threads' = [u \in Threads |->
                       IF u = t
                       THEN [threads[u] EXCEPT !.pc = "return", !.inserted = TRUE]
                       ELSE IF threads[u].attached /\ SessionKey(u) = SessionKey(t)
                       THEN [threads[u] EXCEPT !.attached = FALSE,
                                               !.game_data = games[SessionKey(u)]]
                       ELSE threads[u]]
      /\ UNCHANGED <<req, resp, before>>

\* return games[game_id]; game_data['current_engine'] = engine_type
CreateReturn ==
    \E t \in Threads :
      /\ threads[t].pc = "return"
      /\ games' = [games EXCEPT ![SessionKey(t)].current_engine = "stockfish"]
      /\ threads' = [threads EXCEPT ![t].pc = "check", ![t].attached = TRUE]
      /\ UNCHANGED <<req, resp, before>>

\* move = chess.Move.from_uci(move_uci); if move in board.legal_moves
CreateCheck ==
    \E t \in Threads :
      /\ threads[t].pc = "check"
      /\ threads' = [threads EXCEPT ![t].pc =
                        IF IsLegal(Mine(t).board, from_uci(threads[t].move))
                        THEN "push" ELSE "done"]
      /\ UNCHANGED <<games, req, resp, before>>

\* board.push(move)
CreatePush ==
    \E t \in Threads :
      /\ threads[t].pc = "push"
      /\ Write(t, [Mine(t) EXCEPT !.board = push(@, from_uci(threads[t].move))],
               "append", threads[t].wrote)
      /\ UNCHANGED <<req, resp, before>>

\* game_data['moves'].append(move_uci); if not board.is_game_over()
CreateAppend ==
    \E t \in Threads :
      /\ threads[t].pc = "append"
      /\ Write(t, [Mine(t) EXCEPT !.moves = append(@, threads[t].move)],
               IF is_game_over(Mine(t).board) THEN "done" ELSE "analyse",
               Append(threads[t].wrote, threads[t].move))
      /\ UNCHANGED <<req, resp, before>>

\* analysis = get_engine_move(game_id, engine_type), which analyses the
\* board of the session now under the key; if analysis
CreateAnalyse ==
    \E t \in Threads :
      /\ threads[t].pc = "analyse"
      /\ \E run \in RaceRuns :
           LET r == get_engine_move(games, SessionKey(t), "stockfish",
                                    [DefaultEnv EXCEPT !.run = run])
           IN  threads' = [threads EXCEPT
                              ![t].pc = IF r.analysis.ok THEN "aipush" ELSE "done",
                              ![t].best = r.analysis.best_move]
      /\ UNCHANGED <<games, req, resp, before>>

\* ai_move = chess.Move.from_uci(analysis.best_move); board.push(ai_move)
CreatePushAi ==
    \E t \in Threads :
      /\ threads[t].pc = "aipush"
      /\ Write(t, [Mine(t) EXCEPT !.board = push(@, from_uci(threads[t].best))],
               "aiappend", threads[t].wrote)
      /\ UNCHANGED <<req, resp, before>>

\* game_data['moves'].append(analysis.best_move)
CreateAppendAi ==
    \E t \in Threads :
      /\ threads[t].pc = "aiappend"
      /\ Write(t, [Mine(t) EXCEPT !.moves = append(@, threads[t].best)],
               "done", Append(threads[t].wrote, threads[t].best))
      /\ UNCHANGED <<req, resp, before>>

NextCreate ==
    \/ CreateTest
    \/ CreateInsert
    \/ CreateReturn
    \/ CreateCheck
    \/ CreatePush
    \/ CreateAppend
    \/ CreateAnalyse
    \/ CreatePushAi
    \/ CreateAppendAi

SpecCreate == InitCreate /\ [][NextCreate]_vars

\* C35: when two concurrent first requests for one unknown identifier have
\* both finished, exactly one of them has created the session, both have
\* worked on the session the store holds, and every move either of them
\* appended is in that session's moves list.
C35_OneSessionCreated ==
    (\A t \in Threads : threads[t].pc = "done") =>
        /\ Cardinality({t \in Threads : threads[t].inserted}) = 1
        /\ \A t \in Threads :
              /\ threads[t].attached
              /\ \A k \in 1..Len(threads[t].wrote) :
                    threads[t].wrote[k] \in Range(games[SessionKey(t)].moves)

\* --------------------------------- a request concurrent with an analysis
\* An analyze_position request (Local adapter, no fen) and a legal_moves
\* request (no fen) for the same existing session, each in its own thread.
\* A step is one statement; the per-move loop of the adapter is, per legal
\* move, board.push(move) and then engine.analyse(...) with board.pop(): the
\* thread waits for the engine subprocess between the two.  The engine runs
\* here do not fail inside the loop.  seen holds the board the legal_moves
\* request enumerated (None: none yet).
Analyst  == 1
Observer == 2

ObserveRuns    == {r \in Runs : r.fail # "loop"}
ObserveSquares == {None, Some(9)} \cup {Some(sq) : sq \in Squares}

InitObserve ==
    /\ games \in {[id \in {"default"} |->
                     [NewSession(None, "white", 20) EXCEPT !.board = board]] :
                    board \in Boards}
    /\ before = games
    /\ req = NoReq
    /\ resp = NoResp
    /\ \E run \in ObserveRuns, square \in ObserveSquares :
         threads = [t \in Threads |->
                      IF t = Analyst
                      THEN [pc |-> "start", game_id |-> "default", run |-> run,
                            legal |-> <<>>, at |-> 1]
                      ELSE [pc |-> "start", game_id |-> "default",
                            square |-> square, seen |-> None]]

\* board = games[game_id]['board']; popen_uci; engine.configure;
\* engine.analyse(board, ..., multipv=top_n) and the top_moves list;
\* "for move in board.legal_moves" begins
AnalysisStart ==
    /\ threads[Analyst].pc = "start"
    /\ LET board == games[SessionKey(Analyst)].board
           run   == threads[Analyst].run
           info  == MultiPv(board, 5, run)
       IN  threads' = [threads EXCEPT
                          ![Analyst].pc =
                              IF \/ run.fail \in {"popen", "configure", "analyse"}
                                 \/ ~SkillLevelAccepted(games[SessionKey(Analyst)].engine_strength)
                                 \/ \E j \in 1..Len(info) : Len(info[j].pv) = 0
                              THEN "done" ELSE "loop",
                          ![Analyst].legal = board_legal_moves(board)]
    /\ UNCHANGED <<games, req, resp, before>>

\* board.push(move)
LoopPush ==
    /\ threads[Analyst].pc = "loop"
    /\ threads[Analyst].at <= Len(threads[Analyst].legal)
    /\ games' = [games EXCEPT ![SessionKey(Analyst)].board =
                    push(@, threads[Analyst].legal[threads[Analyst].at])]
    /\ threads' = [threads EXCEPT ![Analyst].pc = "analyse"]
    /\ UNCHANGED <<req, resp, before>>

\* eval_info = engine.analyse(board, ...); board.pop(): the board is again
\* the position the loop began on
LoopPop ==
    /\ threads[Analyst].pc = "analyse"
    /\ games' = [games EXCEPT ![SessionKey(Analyst)].board =
                    before[SessionKey(Analyst)].board]
    /\ threads' = [threads EXCEPT ![Analyst].pc = "loop", ![Analyst].at = @ + 1]
    /\ UNCHANGED <<req, resp, before>>

\* the loop is over: sort, the analysis of the position, the response
AnalysisFinish ==
    /\ threads[Analyst].pc = "loop"
    /\ threads[Analyst].at > Len(threads[Analyst].legal)
    /\ threads' = [threads EXCEPT ![Analyst].pc = "done"]
    /\ UNCHANGED <<games, req, resp, before>>

\* if game_id not in games; board = games[game_id]['board']; if square:
\* square_idx = chess.parse_square(square)
ObserveLookup ==
    /\ threads[Observer].pc = "start"
    /\ threads' = [threads EXCEPT ![Observer].pc =
                      IF \/ SessionKey(Observer) \notin DOMAIN games
                         \/ threads[Observer].square = None
                         \/ threads[Observer].square[1] \notin Squares
                      THEN "done" ELSE "read"]
    /\ UNCHANGED <<games, req, resp, before>>

\* for move in board.legal_moves: ...; return jsonify(...)
ObserveRead ==
    /\ threads[Observer].pc = "read"
    /\ threads' = [threads EXCEPT ![Observer].pc = "done",
                                  ![Observer].seen = <<games[SessionKey(Observer)].board>>]
    /\ UNCHANGED <<games, req, resp, before>>

NextObserve ==
    \/ AnalysisStart
    \/ LoopPush
    \/ LoopPop
    \/ AnalysisFinish
    \/ ObserveLookup
    \/ ObserveRead

SpecObserve == InitObserve /\ [][NextObserve]_vars

\* C34: a legal_moves request handled while a Local-adapter analysis of the
\* same session is in progress enumerates the moves of the session's
\* committed position, never of a position with a candidate move of the
\* adapter's loop pushed.
C34_NoCandidateObserved ==
    threads[Observer].seen # None =>
        threads[Observer].seen = <<before[SessionKey(Observer)].board>>

====
